---- MODULE Spec2Model ----
(***************************************************************************)
(* A model of convert.py: the BAI2 line parser parse_bai2 (a generator),   *)
(* the amount normalisation it applies to code-16 records, write_csv, and  *)
(* the handler BAI2ConverterGUI.convert that drives them.                  *)
(*                                                                         *)
(* Text is modelled as a sequence of one-character strings, so that        *)
(* strip, endswith, split, the decimal parser and the fixed-point          *)
(* formatter are computed character by character, as the code and the      *)
(* decimal library compute them.                                           *)
(***************************************************************************)
EXTENDS Integers, Sequences, FiniteSets, TLC

(***************************************************************************)
(* Bounds of the model.                                                    *)
(***************************************************************************)
\* longest amount text enumerated over AmountAlphabet
MaxAmtLen == 4
\* most lines in an input file
MaxLines == 3
\* most comma-separated fields after the record code on an enumerated line
MaxFields == 8

(***************************************************************************)
(* Characters and elementary text operations.                              *)
(***************************************************************************)
Digit == {"0", "1", "2", "3", "4", "5", "6", "7", "8", "9"}

DigitVal(c) ==
    CASE c = "0" -> 0 [] c = "1" -> 1 [] c = "2" -> 2 [] c = "3" -> 3
      [] c = "4" -> 4 [] c = "5" -> 5 [] c = "6" -> 6 [] c = "7" -> 7
      [] c = "8" -> 8 [] c = "9" -> 9

\* the characters str.strip() removes (those that occur in the model)
Whitespace == {" ", "\n", "\t", "\r"}

\* case folding of the letters the decimal grammar names (re.IGNORECASE)
Lower(c) ==
    CASE c = "N" -> "n" [] c = "A" -> "a" [] c = "S" -> "s" [] c = "I" -> "i"
      [] c = "F" -> "f" [] c = "T" -> "t" [] c = "Y" -> "y" [] c = "E" -> "e"
      [] OTHER -> c

LowerStr(s) == [i \in 1..Len(s) |-> Lower(s[i])]

Min(a, b) == IF a < b THEN a ELSE b

Max(a, b) == IF a > b THEN a ELSE b

\* s[a:b] of Python (0-based, half open), for 0 <= a
Slice(s, a, b) ==
    LET hi == Min(b, Len(s))
    IN  IF hi <= a THEN <<>> ELSE SubSeq(s, a + 1, hi)

\* c * n of Python: n copies of the character c
Repeat(c, n) == [i \in 1..Max(n, 0) |-> c]

\* str.strip(): leading and trailing whitespace removed
Strip(s) ==
    LET keep == {i \in 1..Len(s) : s[i] \notin Whitespace}
    IN  IF keep = {} THEN <<>>
        ELSE LET lo == CHOOSE i \in keep : \A j \in keep : i <= j
                 hi == CHOOSE i \in keep : \A j \in keep : j <= i
             IN  SubSeq(s, lo, hi)

\* str.replace("_", "")
RemoveUnderscores(s) == SelectSeq(s, LAMBDA c : c # "_")

\* "." in s
HasDot(s) == \E i \in 1..Len(s) : s[i] = "."

\* length of the longest prefix of s made of digits only
DigitPrefixLen(s) ==
    LET ok == {n \in 0..Len(s) : \A i \in 1..n : s[i] \in Digit}
    IN  CHOOSE n \in ok : \A m \in ok : m <= n

AllDigits(s) == \A i \in 1..Len(s) : s[i] \in Digit

\* int(s) for a string of digits
RECURSIVE StrToInt(_)
StrToInt(s) ==
    IF s = <<>> THEN 0
    ELSE 10 * StrToInt(SubSeq(s, 1, Len(s) - 1)) + DigitVal(s[Len(s)])

\* str(int(s)) for a string of digits: leading zeros removed, "0" if none left
StripLeadingZeros(s) ==
    LET nz == {i \in 1..Len(s) : s[i] # "0"}
    IN  IF nz = {} THEN <<"0">>
        ELSE SubSeq(s, CHOOSE i \in nz : \A j \in nz : i <= j, Len(s))

\* str(int(s) + 1) for a string of digits without leading zeros
RECURSIVE IncDigits(_)
IncDigits(s) ==
    IF s = <<>> THEN <<"1">>
    ELSE IF s[Len(s)] = "9"
         THEN Append(IncDigits(SubSeq(s, 1, Len(s) - 1)), "0")
         ELSE Append(SubSeq(s, 1, Len(s) - 1),
                     CHOOSE c \in Digit : DigitVal(c) = DigitVal(s[Len(s)]) + 1)

(***************************************************************************)
(* decimal.Decimal, as far as lines 79-82 use it: construction from text,  *)
(* division by Decimal(100) in the default context, and format(.2f).       *)
(* A value is [kind, sign, int, exp]: kind "num" for a finite number       *)
(* (-1)^sign * int * 10^exp, "inf", "nan" (quiet) or "snan" (signalling);  *)
(* int is the coefficient's digit string, as in the library.               *)
(***************************************************************************)
\* precision of the default context (decimal.getcontext().prec)
DefaultPrec == 28

\* An exception is its class and str(exc), the text convert shows.
\* decimal.InvalidOperation raised for text outside the grammar
ConversionSyntax ==
    [type |-> "decimal.InvalidOperation",
     msg  |->
        <<"[", "<", "c", "l", "a", "s", "s", " ", "'", "d", "e", "c",
          "i", "m", "a", "l", ".", "C", "o", "n", "v", "e", "r", "s",
          "i", "o", "n", "S", "y", "n", "t", "a", "x", "'", ">", "]">>]

\* decimal.InvalidOperation raised for an operation on a signalling NaN
SignallingNaN ==
    [type |-> "decimal.InvalidOperation",
     msg  |->
        <<"[", "<", "c", "l", "a", "s", "s", " ", "'", "d", "e", "c",
          "i", "m", "a", "l", ".", "I", "n", "v", "a", "l", "i", "d",
          "O", "p", "e", "r", "a", "t", "i", "o", "n", "'", ">", "]">>]

Ok(v) == [ok |-> TRUE, val |-> v]

Raise(e) == [ok |-> FALSE, exc |-> e]

\* the text after an "e" of the numeric form: [-+]?\d+
IsExponent(s) ==
    LET body == IF s # <<>> /\ s[1] \in {"-", "+"} THEN Tail(s) ELSE s
    IN  body # <<>> /\ AllDigits(body)

ExponentVal(s) ==
    IF s[1] = "-" THEN 0 - StrToInt(Tail(s))
    ELSE IF s[1] = "+" THEN StrToInt(Tail(s))
    ELSE StrToInt(s)

\* the numeric form, after its digits and fraction: an optional exponent
\* E[-+]?\d+ and nothing more; the lookahead (?=\d|\.\d) asks for a digit
ParseExponent(sign, intpart, fracpart, r3) ==
    IF /\ (intpart # <<>> \/ fracpart # <<>>)
       /\ \/ r3 = <<>>
          \/ (r3[1] = "e" /\ IsExponent(Tail(r3)))
    THEN Ok([kind |-> "num", sign |-> sign,
             int |-> StripLeadingZeros(intpart \o fracpart),
             exp |-> (IF r3 = <<>> THEN 0 ELSE ExponentVal(Tail(r3)))
                     - Len(fracpart)])
    ELSE Raise(ConversionSyntax)

\* the fraction (\.\d*)? of the text r2 that follows a "."
ParseFraction(sign, intpart, r2) ==
    ParseExponent(sign, intpart, SubSeq(r2, 1, DigitPrefixLen(r2)),
                  SubSeq(r2, DigitPrefixLen(r2) + 1, Len(r2)))

\* the numeric form: \d* (\.\d*)? ...
ParseNumeric(sign, intpart, r1) ==
    IF r1 # <<>> /\ r1[1] = "."
    THEN ParseFraction(sign, intpart, Tail(r1))
    ELSE ParseExponent(sign, intpart, <<>>, r1)

\* s?NaN\d*, the text q following the optional "s"
ParseNaN(sign, signal, q) ==
    IF /\ Len(q) >= 3
       /\ SubSeq(q, 1, 3) = <<"n", "a", "n">>
       /\ AllDigits(SubSeq(q, 4, Len(q)))
    THEN Ok([kind |-> IF signal THEN "snan" ELSE "nan", sign |-> sign,
             int |-> IF StripLeadingZeros(SubSeq(q, 4, Len(q))) = <<"0">>
                     THEN <<>>
                     ELSE StripLeadingZeros(SubSeq(q, 4, Len(q))),
             exp |-> 0])
    ELSE Raise(ConversionSyntax)

\* the text r after the sign
ParseUnsigned(sign, r) ==
    IF r # <<>> /\ (r[1] \in Digit \/ r[1] = ".")
    THEN ParseNumeric(sign, SubSeq(r, 1, DigitPrefixLen(r)),
                      SubSeq(r, DigitPrefixLen(r) + 1, Len(r)))
    ELSE IF r \in {<<"i", "n", "f">>,
                   <<"i", "n", "f", "i", "n", "i", "t", "y">>}
    THEN Ok([kind |-> "inf", sign |-> sign, int |-> <<"0">>, exp |-> 0])
    ELSE IF r # <<>> /\ r[1] = "s" THEN ParseNaN(sign, TRUE, Tail(r))
    ELSE ParseNaN(sign, FALSE, r)

ParseSigned(s) ==
    IF s # <<>> /\ s[1] \in {"-", "+"}
    THEN ParseUnsigned(IF s[1] = "-" THEN 1 ELSE 0, Tail(s))
    ELSE ParseUnsigned(0, s)

\* Decimal(text): the constructor's grammar
\*   [-+]? ( (?=\d|\.\d) \d* (\.\d*)? (E[-+]?\d+)? | Inf(inity)? | s?NaN\d* )
\* matched case-insensitively on text.strip().replace("_", "")
DecimalFromStr(text) == ParseSigned(LowerStr(RemoveUnderscores(Strip(text))))

IsZero(d) == d.kind = "num" /\ d.int = <<"0">>

\* _exact_half: the digits from position prec on are "50*"
ExactHalf(int, prec) ==
    /\ Len(int) > prec
    /\ int[prec + 1] = "5"
    /\ \A i \in (prec + 2)..Len(int) : int[i] = "0"

\* _all_zeros: the digits from position prec on are all "0"
AllZeros(int, prec) == \A i \in (prec + 1)..Len(int) : int[i] = "0"

\* _round_half_up: 1 to round away from zero, 0 when exact, -1 to truncate
RoundHalfUp(int, prec) ==
    IF DigitVal(int[prec + 1]) >= 5 THEN 1
    ELSE IF AllZeros(int, prec) THEN 0
    ELSE -1

\* _round_half_even (the default context's rounding), keeping prec digits
RoundHalfEven(int, prec) ==
    IF ExactHalf(int, prec) /\ (prec = 0 \/ DigitVal(int[prec]) % 2 = 0)
    THEN -1
    ELSE RoundHalfUp(int, prec)

\* Decimal._fix, the rounded coefficient in hand: a carry into one digit
\* more drops the last digit
FixCoeff(d, exp_min, coeff) ==
    IF Len(coeff) > DefaultPrec
    THEN [d EXCEPT !.int = Slice(coeff, 0, Len(coeff) - 1), !.exp = exp_min + 1]
    ELSE [d EXCEPT !.int = coeff, !.exp = exp_min]

\* Decimal._fix, rounding half-even to the first digits digits
FixRound(d, exp_min, digits) ==
    FixCoeff(d, exp_min,
             IF RoundHalfEven(d.int, digits) > 0
             THEN IncDigits(Slice(d.int, 0, digits))
             ELSE Slice(d.int, 0, digits))

\* Decimal._fix in the default context: a coefficient longer than the
\* context's precision is rounded half-even to DefaultPrec digits
\* (the exponents of the model stay far inside Emin..Emax)
FixTo(d, exp_min) ==
    IF d.exp >= exp_min THEN d
    ELSE FixRound(d, exp_min, Len(d.int) + d.exp - exp_min)

Fix(d) ==
    IF d.kind # "num" \/ IsZero(d) THEN d
    ELSE FixTo(d, Len(d.int) + d.exp - DefaultPrec)

\* the number of trailing "0" digits of a coefficient
TrailingZeros(int) ==
    LET ok == {k \in 0..(Len(int) - 1) :
                  \A i \in (Len(int) - k + 1)..Len(int) : int[i] = "0"}
    IN  CHOOSE k \in ok : \A j \in ok : j <= k

\* an exact quotient: trailing zeros are removed up to the ideal exponent
DivideExact(d, exp, quot, strip) ==
    Ok(Fix([d EXCEPT !.int = Slice(quot, 0, Len(quot) - strip),
                     !.exp = exp + strip]))

\* divmod(...) done: quot and the remainder's digits rest
DivideQuot(d, exp, quot, rest) ==
    IF \A i \in 1..Len(rest) : rest[i] = "0"
    THEN DivideExact(d, exp, quot,
                     Min(TrailingZeros(quot), Max((d.exp - 0) - exp, 0)))
    ELSE Ok(Fix([d EXCEPT !.int = IF quot[Len(quot)] \in {"0", "5"}
                                  THEN IncDigits(quot) ELSE quot,
                         !.exp = exp]))

\* divmod(op1.int * 10**shift, 100), or divmod(op1.int, 100 * 10**-shift):
\* the last cut digits of num are the remainder
DivideShifted(d, exp, num, cut) ==
    DivideQuot(d, exp, Slice(num, 0, Len(num) - cut),
               Slice(num, Len(num) - cut, Len(num)))

DivideFinite(d, shift) ==
    DivideShifted(d, d.exp - 0 - shift,
                  IF shift >= 0 THEN d.int \o Repeat("0", shift) ELSE d.int,
                  IF shift >= 0 THEN 2 ELSE 2 - shift)

\* Decimal.__truediv__(self, Decimal(100)) in the default context (line 79).
\* Decimal(100) is (sign 0, int "100", exp 0); a signalling NaN raises
\* (InvalidOperation is trapped), a quiet NaN and an infinity pass through.
DivideBy100(d) ==
    IF d.kind = "snan" THEN Raise(SignallingNaN)
    ELSE IF d.kind \in {"nan", "inf"} THEN Ok(d)
    ELSE IF IsZero(d) THEN Ok(d)
    ELSE DivideFinite(d, 3 - Len(d.int) + DefaultPrec + 1)

\* coeff = self._int[:digits] or '0'
KeptDigits(self, keep) ==
    IF Slice(self, 0, keep) = <<>> THEN <<"0">> ELSE Slice(self, 0, keep)

RescaleRound(d, exp, self, keep) ==
    [d EXCEPT !.int = IF RoundHalfEven(self, keep) = 1
                      THEN IncDigits(KeptDigits(self, keep))
                      ELSE KeptDigits(self, keep),
              !.exp = exp]

\* Decimal._rescale(exp, ROUND_HALF_EVEN) of a finite number: the value
\* with exponent exp, rounded half-even; the context's precision does not
\* apply here
Rescale(d, exp) ==
    IF IsZero(d) THEN [d EXCEPT !.exp = exp]
    ELSE IF d.exp >= exp
    THEN [d EXCEPT !.int = d.int \o Repeat("0", d.exp - exp), !.exp = exp]
    ELSE RescaleRound(d, exp,
                      IF Len(d.int) + d.exp - exp < 0 THEN <<"1">> ELSE d.int,
                      Max(Len(d.int) + d.exp - exp, 0))

\* _format_sign with the default sign option "-"
FormatSign(d) == IF d.sign = 1 THEN <<"-">> ELSE <<>>

\* Decimal.__format__, the digits placed around the decimal point
FormatDigits(sign, int, dotplace) ==
    sign \o (IF dotplace <= 0 THEN <<"0">> ELSE Slice(int, 0, dotplace))
         \o <<".">>
         \o (IF dotplace < 0 THEN Repeat("0", 0 - dotplace) \o int
             ELSE Slice(int, dotplace, Len(int)))

FormatRescaled(sign, r) == FormatDigits(sign, r.int, r.exp + Len(r.int))

\* format(d, ".2f") (line 82): a special value is rendered by name, without
\* any fractional digits; a finite one in fixed point with two of them
FormatFixed2(d) ==
    IF d.kind = "inf"
    THEN FormatSign(d) \o <<"I", "n", "f", "i", "n", "i", "t", "y">>
    ELSE IF d.kind = "nan" THEN FormatSign(d) \o <<"N", "a", "N">> \o d.int
    ELSE IF d.kind = "snan"
    THEN FormatSign(d) \o <<"s", "N", "a", "N">> \o d.int
    ELSE FormatRescaled(FormatSign(d), Rescale(d, -2))

\* lines 77-82: the amount text of a code-16 record, normalised
\* line 82
FormatResult(scaled) ==
    IF ~scaled.ok THEN scaled ELSE Ok(FormatFixed2(scaled.val))

\* lines 78-81: divided by 100 unless the text holds a "."
ScaleParsed(amt, parsed) ==
    IF ~parsed.ok THEN parsed
    ELSE IF ~HasDot(amt) THEN DivideBy100(parsed.val)
    ELSE parsed

\* lines 77-82: the amount text of a code-16 record, normalised
NormalizeAmount(amt) == FormatResult(ScaleParsed(amt, DecimalFromStr(amt)))

(***************************************************************************)
(* The amount texts the model enumerates.                                  *)
(***************************************************************************)
AmountAlphabet == {"0", "1", "5", "-", ".", "e", "n", "a"}

ShortAmounts == UNION {[1..n -> AmountAlphabet] : n \in 0..MaxAmtLen}

NamedAmounts ==
    { <<"1", "2", "3", "4", "5">>,
      <<"1", "2", "3", ".", "4", "5">>,
      <<"-", "5", "0", "0">>,
      <<"a", "b", "c">>,
      <<"N", "a", "N">>,
      <<"-", "N", "a", "N">>,
      <<"I", "n", "f", "i", "n", "i", "t", "y">>,
      <<"-", "i", "n", "f">>,
      <<"s", "N", "a", "N">>,
      <<"+", "5">>,
      <<" ", "5">>,
      <<"1", "_", "0">>,
      <<"0", ".", "1", "2", "5">>,
      <<"0", ".", "1", "3", "5">>,
      <<"1", "2", "3", ".", "4", "5", "6">>,
      <<"1", ".", "5", "E", "3">>,
      <<"1", "2", "E", "-", "1">> }

\* integers of DefaultPrec - 1 .. DefaultPrec + 6 digits, around the
\* precision of the default context: first digit 1, then a filler, then
\* two chosen last digits
LongDigits(len, fill, d1, d2) ==
    [i \in 1..len |-> IF i = 1 THEN "1"
                      ELSE IF i = len - 1 THEN d1
                      ELSE IF i = len THEN d2
                      ELSE fill]

LongAmounts ==
    LET body == {LongDigits(len, fill, d1, d2) :
                   len \in (DefaultPrec - 1)..(DefaultPrec + 6),
                   fill \in {"0", "9"}, d1 \in {"0", "4", "9"},
                   d2 \in {"0", "1", "5", "9"}}
    IN  body
        \cup {<<"-">> \o b : b \in body}
        \cup {Slice(b, 0, Len(b) - 2) \o <<".">> \o Slice(b, Len(b) - 2, Len(b)) :
                b \in body}
        \cup {b \o <<".", "0", "0", "5">> : b \in body}

AmountPool == ShortAmounts \cup NamedAmounts \cup LongAmounts

(***************************************************************************)
(* The field schemas (lines 20-55) and dict records.  A dict is the        *)
(* sequence of its <<key, value>> pairs in insertion order.                *)
(***************************************************************************)
HDR_FIELDS == <<"record_code", "sender_id", "receiver_id", "creation_date",
                "creation_time", "file_id", "version", "physical_record_length">>

GRP_FIELDS == <<"record_code", "file_id", "group_id", "creation_date",
                "creation_time", "currency">>

ACC_FIELDS == <<"record_code", "account_number", "currency", "type_code_summary">>

TXN_FIELDS == <<"record_code", "type_code", "amount", "funds_type", "bank_ref",
                "customer_ref", "text">>

Code01 == <<"0", "1">>

Code02 == <<"0", "2">>

Code03 == <<"0", "3">>

Code16 == <<"1", "6">>

\* dict(zip(keys, values)): pairs up to the shorter of the two
ZipDict(keys, values) ==
    [i \in 1..Min(Len(keys), Len(values)) |-> <<keys[i], values[i]>>]

Keys(d) == [i \in 1..Len(d) |-> d[i][1]]

HasKey(d, k) == \E i \in 1..Len(d) : d[i][1] = k

\* d[k], for a key the dict holds
DictAt(d, k) == d[CHOOSE i \in 1..Len(d) : d[i][1] = k][2]

\* d.get(k, default)
DictGet(d, k, default) == IF HasKey(d, k) THEN DictAt(d, k) ELSE default

\* d[k] = v, for a key the dict holds: the value changes, the order stays
DictSet(d, k, v) == [i \in 1..Len(d) |-> IF d[i][1] = k THEN <<k, v>> ELSE d[i]]

(***************************************************************************)
(* parse_bai2, one line (lines 61-85).                                     *)
(***************************************************************************)
\* raw.endswith("/")
EndsWithSlash(s) == s # <<>> /\ s[Len(s)] = "/"

\* raw.split(","): at least one part, the separators dropped
RECURSIVE Split(_)
Split(s) ==
    LET commas == {i \in 1..Len(s) : s[i] = ","}
    IN  IF commas = {} THEN <<s>>
        ELSE LET c == CHOOSE i \in commas : \A j \in commas : i <= j
             IN  <<SubSeq(s, 1, c - 1)>> \o Split(SubSeq(s, c + 1, Len(s)))

\* a faulty variant of lines 64-65, raw.rstrip("/"): every trailing "/" removed
StripTerminatorAll(s) ==
    IF EndsWithSlash(s) THEN
        LET keep == {i \in 1..Len(s) : s[i] # "/"}
        IN  IF keep = {} THEN <<>>
            ELSE SubSeq(s, 1, CHOOSE i \in keep : \A j \in keep : j <= i)
    ELSE s

\* lines 64-65: one trailing "/" removed
StripTerminator(s) == IF EndsWithSlash(s) THEN Slice(s, 0, Len(s) - 1) ELSE s

\* what one pass of the loop body does with a line
Blank == [kind |-> "blank"]

Ignored == [kind |-> "ignored"]

Yielded(r) == [kind |-> "yield", rec |-> r]

Raised(e) == [kind |-> "raise", exc |-> e]

\* lines 82-83
TxnWithAmount(out, amount) ==
    IF amount.ok THEN Yielded(DictSet(out, "amount", amount.val))
    ELSE Raised(amount.exc)

\* lines 77-83
TxnNormalize(out) == TxnWithAmount(out, NormalizeAmount(DictAt(out, "amount")))

\* lines 75-83: a code-16 line
DecodeTxn(parts) ==
    TxnNormalize(ZipDict(TXN_FIELDS,
                         Slice(parts \o Repeat(<<>>, Len(TXN_FIELDS) - Len(parts)),
                               0, Len(TXN_FIELDS))))

\* a faulty variant of the dispatch: code 02 falls to the else branch
DispatchWithoutGroup(parts) ==
    IF parts[1] = Code01
    THEN Yielded(ZipDict(HDR_FIELDS, Slice(parts, 0, Len(HDR_FIELDS))))
    ELSE IF parts[1] = Code03
    THEN Yielded(ZipDict(ACC_FIELDS, Slice(parts, 0, Len(ACC_FIELDS))))
    ELSE IF parts[1] = Code16 THEN DecodeTxn(parts)
    ELSE Ignored

\* lines 67-85: the dispatch on the record code
Dispatch(parts) ==
    IF parts[1] = Code01
    THEN Yielded(ZipDict(HDR_FIELDS, Slice(parts, 0, Len(HDR_FIELDS))))
    ELSE IF parts[1] = Code02
    THEN Yielded(ZipDict(GRP_FIELDS, Slice(parts, 0, Len(GRP_FIELDS))))
    ELSE IF parts[1] = Code03
    THEN Yielded(ZipDict(ACC_FIELDS, Slice(parts, 0, Len(ACC_FIELDS))))
    ELSE IF parts[1] = Code16 THEN DecodeTxn(parts)
    ELSE Ignored

\* lines 62-66
DecodeStripped(stripped) ==
    IF stripped = <<>> THEN Blank
    ELSE Dispatch(Split(StripTerminator(stripped)))

\* lines 61-85: one line of the file
DecodeLine(line) == DecodeStripped(Strip(line))

(***************************************************************************)
(* write_csv (lines 88-94): the header row, then one row per record with   *)
(* the columns in the given order and "" for a key the record lacks.       *)
(* write_csv_present_only is a faulty variant that writes only the values  *)
(* a record holds.                                                         *)
(***************************************************************************)
write_csv_present_only(rows, columns) ==
    [header |-> columns,
     rows   |-> [i \in 1..Len(rows) |->
                   [j \in 1..Min(Len(columns), Len(rows[i])) |->
                       DictAt(rows[i], columns[j])]]]

write_csv(rows, columns) ==
    [header |-> columns,
     rows   |-> [i \in 1..Len(rows) |->
                   [j \in 1..Len(columns) |-> DictGet(rows[i], columns[j], <<>>)]]]

(***************************************************************************)
(* The lines and files the model enumerates.                               *)
(***************************************************************************)
Join(parts) ==
    LET RECURSIVE J(_)
        J(k) == IF k = 0 THEN <<>>
                ELSE IF k = 1 THEN parts[1]
                ELSE J(k - 1) \o <<",">> \o parts[k]
    IN  J(Len(parts))

DigitChar(i) == CHOOSE c \in Digit : DigitVal(c) = i % 10

\* a line: a code, then nfields fields; the field in the amount column is
\* amt, every other one is the filler followed by its position (or empty)
LineOf(lead, code, nfields, fill, amt, term, trail) ==
    LET field(i) == IF i = 3 THEN amt
                    ELSE IF fill = <<>> THEN <<>>
                    ELSE fill \o <<DigitChar(i)>>
    IN  lead \o Join(<<code>> \o [i \in 1..nfields |-> field(i + 1)])
             \o term \o trail

LineCodes == {Code01, Code02, Code03, Code16, <<"9", "9">>, <<>>}

LineAmounts == { <<>>, <<"5">>, <<"-", "1", ".", "5">>, <<"a", "b", "c">>,
                 <<"N", "a", "N">>, <<"1", "/">> }

LinePool ==
    {LineOf(lead, code, nfields, fill, amt, term, trail) :
        lead \in {<<>>, <<" ">>}, code \in LineCodes, nfields \in 0..MaxFields,
        fill \in {<<>>, <<"A">>, <<"/">>}, amt \in LineAmounts,
        term \in {<<>>, <<"/">>, <<"/", "/">>}, trail \in {<<>>, <<" ", "\n">>}}

FileLines ==
    { <<"0", "1", ",", "S", ",", "R", "/", "\n">>,
      <<"0", "2", ",", "F", ",", "G", "\n">>,
      <<"0", "3", ",", "A", ",", "U", ",", "T", ",", "X", "/", "\n">>,
      <<"1", "6", ",", "4", ",", "1", "2", "3", "4", "5", ",", ",", "R", "\n">>,
      <<"1", "6", ",", "4", ",", "-", "1", ".", "5", "/", "\n">>,
      <<"1", "6", ",", "4", ",", "a", "b", "c", ",", ",", ",", ",", "\n">>,
      <<"1", "6", ",", "4", "\n">>,
      <<"1", "6", ",", "4", ",", "N", "a", "N", "\n">>,
      <<"9", "9", ",", "1", "/", "\n">>,
      <<"\n">> }

Files == UNION {[1..n -> FileLines] : n \in 0..MaxLines}

(***************************************************************************)
(* State.                                                                  *)
(***************************************************************************)
VARIABLES
    picked,     \* file_edit names an existing file (pick_file has run)
    file,       \* the lines of that file
    pc,         \* where BAI2ConverterGUI.convert and the generator stand
    lineno,     \* lines the generator has read
    rec,        \* the loop variable rec of convert: the record just yielded
    emitted,    \* every record the generator has yielded, in order
    headers,    \* convert's list headers
    accounts,   \* convert's list accounts
    txns,       \* convert's list txns
    csv,        \* the files written: name -> [header, rows]
    exc,        \* the exception convert's except clause caught
    msgbox,     \* the QMessageBox shown: "none", "information" or "critical"
    log,        \* the lines appended to the log widget
    amt,        \* an amount text (normalisation on its own)
    amtPc,
    amtRes,
    line,       \* a line (decoding on its own, with and without terminator)
    linePc,
    lineRes,
    termRes

convVars == <<picked, file, pc, lineno, rec, emitted, headers, accounts, txns,
              csv, exc, msgbox, log>>

amtVars == <<amt, amtPc, amtRes>>

lineVars == <<line, linePc, lineRes, termRes>>

vars == <<convVars, amtVars, lineVars>>

NoExc == [type |-> "none", msg |-> <<>>]

\* line 171
FileNotFound ==
    [type |-> "FileNotFoundError",
     msg  |->
        <<"P", "l", "e", "a", "s", "e", " ", "c", "h", "o", "o", "s",
          "e", " ", "a", " ", "v", "a", "l", "i", "d", " ", "B", "A",
          "I", "2", " ", "f", "i", "l", "e", ".">>]

NoFiles == [n \in {} |-> [header |-> <<>>, rows |-> <<>>]]

ConvIdle ==
    /\ picked = FALSE
    /\ file = <<>>
    /\ pc = "idle"
    /\ lineno = 0
    /\ rec = <<>>
    /\ emitted = <<>>
    /\ headers = <<>>
    /\ accounts = <<>>
    /\ txns = <<>>
    /\ csv = NoFiles
    /\ exc = NoExc
    /\ msgbox = "none"
    /\ log = <<>>

AmtIdle == amt = <<>> /\ amtPc = "off" /\ amtRes = Ok(<<>>)

LineIdle ==
    /\ line = <<>>
    /\ linePc = "off"
    /\ lineRes = Blank
    /\ termRes = Blank

(***************************************************************************)
(* BAI2ConverterGUI: pick_file, then one run of convert, which pulls       *)
(* records from the generator parse_bai2 one at a time.                    *)
(***************************************************************************)
Init == ConvIdle /\ AmtIdle /\ LineIdle

\* pick_file (lines 155-160): the user chooses an existing file
PickFile ==
    /\ pc = "idle"
    /\ ~picked
    /\ \E f \in Files : file' = f
    /\ picked' = TRUE
    /\ UNCHANGED <<pc, lineno, rec, emitted, headers, accounts, txns, csv, exc,
                   msgbox, log>>

\* convert, lines 168-176: the file check, the two log lines, the lists
ConvertStart ==
    /\ pc = "idle"
    /\ IF picked
       THEN /\ pc' = "iter"
            /\ log' = log \o <<"Converting", "Output dir">>
            /\ exc' = exc
       ELSE /\ pc' = "except"
            /\ exc' = FileNotFound
            /\ log' = log
    /\ headers' = <<>>
    /\ accounts' = <<>>
    /\ txns' = <<>>
    /\ UNCHANGED <<picked, file, lineno, rec, emitted, csv, msgbox>>

NextLine == DecodeLine(file[lineno + 1])

\* parse_bai2, lines 61-63: an empty line after strip, continue
GenSkipBlank ==
    /\ pc = "iter"
    /\ lineno < Len(file)
    /\ NextLine.kind = "blank"
    /\ lineno' = lineno + 1
    /\ UNCHANGED <<picked, file, pc, rec, emitted, headers, accounts, txns, csv,
                   exc, msgbox, log>>

\* parse_bai2, lines 84-85: a code that is none of the four, continue
GenSkipIgnored ==
    /\ pc = "iter"
    /\ lineno < Len(file)
    /\ NextLine.kind = "ignored"
    /\ lineno' = lineno + 1
    /\ UNCHANGED <<picked, file, pc, rec, emitted, headers, accounts, txns, csv,
                   exc, msgbox, log>>

\* a faulty variant of the yield: the record is kept in a buffer of the
\* generator instead of being handed to the caller
GenYieldBuffered ==
    /\ pc = "iter"
    /\ lineno < Len(file)
    /\ NextLine.kind = "yield"
    /\ lineno' = lineno + 1
    /\ UNCHANGED <<picked, file, pc, rec, emitted, headers, accounts, txns, csv,
                   exc, msgbox, log>>

\* parse_bai2, lines 69, 71, 73, 83: yield; control passes to the loop body
GenYield ==
    /\ pc = "iter"
    /\ lineno < Len(file)
    /\ NextLine.kind = "yield"
    /\ lineno' = lineno + 1
    /\ rec' = NextLine.rec
    /\ emitted' = Append(emitted, NextLine.rec)
    /\ pc' = "body"
    /\ UNCHANGED <<picked, file, headers, accounts, txns, csv, exc, msgbox, log>>

\* parse_bai2, lines 79-82 raising: the exception leaves the generator and
\* the for loop of convert, and reaches its except clause
GenRaise ==
    /\ pc = "iter"
    /\ lineno < Len(file)
    /\ NextLine.kind = "raise"
    /\ lineno' = lineno + 1
    /\ exc' = NextLine.exc
    /\ pc' = "except"
    /\ UNCHANGED <<picked, file, rec, emitted, headers, accounts, txns, csv,
                   msgbox, log>>

\* parse_bai2 at the end of the file: the generator returns, the loop ends
GenStop ==
    /\ pc = "iter"
    /\ lineno = Len(file)
    /\ pc' = "write_headers"
    /\ UNCHANGED <<picked, file, lineno, rec, emitted, headers, accounts, txns,
                   csv, exc, msgbox, log>>

\* convert, lines 178-184: the loop body
LoopBody ==
    /\ pc = "body"
    /\ LET rcode == DictAt(rec, "record_code")
       IN  /\ headers' = IF rcode = Code01 THEN Append(headers, rec) ELSE headers
           /\ accounts' = IF rcode = Code03 THEN Append(accounts, rec) ELSE accounts
           /\ txns' = IF rcode = Code16 THEN Append(txns, rec) ELSE txns
    /\ pc' = "iter"
    /\ UNCHANGED <<picked, file, lineno, rec, emitted, csv, exc, msgbox, log>>

WriteFile(name, table) ==
    csv' = [n \in DOMAIN csv \cup {name} |-> IF n = name THEN table ELSE csv[n]]

\* convert, line 186
WriteHeaders ==
    /\ pc = "write_headers"
    /\ WriteFile("file_header.csv", write_csv(headers, HDR_FIELDS))
    /\ pc' = "write_accounts"
    /\ UNCHANGED <<picked, file, lineno, rec, emitted, headers, accounts, txns,
                   exc, msgbox, log>>

\* convert, line 187
WriteAccounts ==
    /\ pc = "write_accounts"
    /\ WriteFile("accounts.csv", write_csv(accounts, ACC_FIELDS))
    /\ pc' = "write_txns"
    /\ UNCHANGED <<picked, file, lineno, rec, emitted, headers, accounts, txns,
                   exc, msgbox, log>>

\* convert, line 188
WriteTxns ==
    /\ pc = "write_txns"
    /\ WriteFile("transactions.csv", write_csv(txns, TXN_FIELDS))
    /\ pc' = "report"
    /\ UNCHANGED <<picked, file, lineno, rec, emitted, headers, accounts, txns,
                   exc, msgbox, log>>

\* convert, lines 190-195: the counts, the success message
ConvertReport ==
    /\ pc = "report"
    /\ log' = log \o <<"Headers", "Accounts", "Transactions", "Conversion complete!">>
    /\ msgbox' = "information"
    /\ pc' = "done"
    /\ UNCHANGED <<picked, file, lineno, rec, emitted, headers, accounts, txns,
                   csv, exc>>

\* a faulty variant of the except clause: what was collected is written
ConvertExceptFlush ==
    /\ pc = "except"
    /\ msgbox' = "critical"
    /\ log' = Append(log, "Error")
    /\ csv' = [n \in {"file_header.csv", "accounts.csv", "transactions.csv"} |->
                 IF n = "file_header.csv" THEN write_csv(headers, HDR_FIELDS)
                 ELSE IF n = "accounts.csv" THEN write_csv(accounts, ACC_FIELDS)
                 ELSE write_csv(txns, TXN_FIELDS)]
    /\ pc' = "done"
    /\ UNCHANGED <<picked, file, lineno, rec, emitted, headers, accounts, txns,
                   exc>>

\* convert, lines 197-199: the except clause
ConvertExcept ==
    /\ pc = "except"
    /\ msgbox' = "critical"
    /\ log' = Append(log, "Error")
    /\ pc' = "done"
    /\ UNCHANGED <<picked, file, lineno, rec, emitted, headers, accounts, txns,
                   csv, exc>>

Next ==
    \/ (PickFile /\ UNCHANGED <<amtVars, lineVars>>)
    \/ (ConvertStart /\ UNCHANGED <<amtVars, lineVars>>)
    \/ (GenSkipBlank /\ UNCHANGED <<amtVars, lineVars>>)
    \/ (GenSkipIgnored /\ UNCHANGED <<amtVars, lineVars>>)
    \/ (GenYield /\ UNCHANGED <<amtVars, lineVars>>)
    \/ (GenRaise /\ UNCHANGED <<amtVars, lineVars>>)
    \/ (GenStop /\ UNCHANGED <<amtVars, lineVars>>)
    \/ (LoopBody /\ UNCHANGED <<amtVars, lineVars>>)
    \/ (WriteHeaders /\ UNCHANGED <<amtVars, lineVars>>)
    \/ (WriteAccounts /\ UNCHANGED <<amtVars, lineVars>>)
    \/ (WriteTxns /\ UNCHANGED <<amtVars, lineVars>>)
    \/ (ConvertReport /\ UNCHANGED <<amtVars, lineVars>>)
    \/ (ConvertExcept /\ UNCHANGED <<amtVars, lineVars>>)

Spec == Init /\ [][Next]_vars

(***************************************************************************)
(* The amount normalisation of lines 77-82 on its own, over AmountPool.    *)
(***************************************************************************)
InitAmount ==
    /\ ConvIdle
    /\ LineIdle
    /\ amt \in AmountPool
    /\ amtPc = "start"
    /\ amtRes = Ok(<<>>)

Normalize ==
    /\ amtPc = "start"
    /\ amtRes' = NormalizeAmount(amt)
    /\ amtPc' = "done"
    /\ UNCHANGED <<amt, convVars, lineVars>>

NextAmount == Normalize

SpecAmount == InitAmount /\ [][NextAmount]_vars

(***************************************************************************)
(* The loop body of parse_bai2 on one line, and on the same line with the  *)
(* record terminator appended, over LinePool.                              *)
(***************************************************************************)
InitLine ==
    /\ ConvIdle
    /\ AmtIdle
    /\ line \in LinePool
    /\ linePc = "start"
    /\ lineRes = Blank
    /\ termRes = Blank

DecodePlain ==
    /\ linePc = "start"
    /\ lineRes' = DecodeLine(line)
    /\ linePc' = "plain"
    /\ UNCHANGED <<line, termRes, convVars, amtVars>>

DecodeTerminated ==
    /\ linePc = "plain"
    /\ termRes' = DecodeLine(line \o <<"/">>)
    /\ linePc' = "both"
    /\ UNCHANGED <<line, lineRes, convVars, amtVars>>

NextLineStep == DecodePlain \/ DecodeTerminated

SpecLine == InitLine /\ [][NextLineStep]_vars

(***************************************************************************)
(* Vocabulary of the properties, stated on the text of the input itself.   *)
(***************************************************************************)
RecognizedCodes == {Code01, Code02, Code03, Code16}

\* a line trimmed, with one trailing "/" removed
Trimmed(l) ==
    LET t == Strip(l)
    IN  IF t # <<>> /\ t[Len(t)] = "/" THEN SubSeq(t, 1, Len(t) - 1) ELSE t

\* the comma-separated fields of a text
RECURSIVE FieldsOf(_)
FieldsOf(s) ==
    IF \A i \in 1..Len(s) : s[i] # "," THEN <<s>>
    ELSE LET c == CHOOSE i \in 1..Len(s) :
                     s[i] = "," /\ \A j \in 1..(i - 1) : s[j] # ","
         IN  <<SubSeq(s, 1, c - 1)>> \o FieldsOf(SubSeq(s, c + 1, Len(s)))

CodeOf(l) == FieldsOf(Trimmed(l))[1]

IsHandled(l) == Strip(l) # <<>> /\ CodeOf(l) \in RecognizedCodes

SchemaOf(code) ==
    CASE code = Code01 -> HDR_FIELDS
      [] code = Code02 -> GRP_FIELDS
      [] code = Code03 -> ACC_FIELDS
      [] code = Code16 -> TXN_FIELDS

RecordCode(r) == DictAt(r, "record_code")

OfCode(recs, code) == SelectSeq(recs, LAMBDA r : RecordCode(r) = code)

\* the records of the lines that decode to one, in order
RECURSIVE RecordsOf(_)
RecordsOf(lines) ==
    IF lines = <<>> THEN <<>>
    ELSE LET d == DecodeLine(Head(lines))
         IN  (IF d.kind = "yield" THEN <<d.rec>> ELSE <<>>)
             \o RecordsOf(Tail(lines))

\* -?\d+\.\d\d
IsFixed2(s) ==
    LET body == IF s # <<>> /\ s[1] = "-" THEN Tail(s) ELSE s
        n    == Len(body)
    IN  /\ n >= 4
        /\ body[n - 2] = "."
        /\ \A i \in 1..n : i # n - 2 => body[i] \in Digit

\* [-+]?\d+
IsIntegerText(s) ==
    LET body == IF s # <<>> /\ s[1] \in {"-", "+"} THEN Tail(s) ELSE s
    IN  body # <<>> /\ \A i \in 1..Len(body) : body[i] \in Digit

SignText(s) == IF s # <<>> /\ s[1] = "-" THEN <<"-">> ELSE <<>>

Unsigned(s) == IF s # <<>> /\ s[1] \in {"-", "+"} THEN Tail(s) ELSE s

\* the integer text n as n/100 with two fractional digits
CentsText(s) ==
    LET d   == StripLeadingZeros(Unsigned(s))
        pad == Repeat("0", 3 - Len(d)) \o d
    IN  SignText(s) \o SubSeq(pad, 1, Len(pad) - 2) \o <<".">>
                    \o SubSeq(pad, Len(pad) - 1, Len(pad))

\* [-+]?\d*\.\d{0,2} with a digit somewhere
IsDecimalText2(s) ==
    LET body == Unsigned(s)
        dots == {i \in 1..Len(body) : body[i] = "."}
    IN  /\ Cardinality(dots) = 1
        /\ Len(body) >= 2
        /\ \A i \in 1..Len(body) : body[i] \in Digit \cup {"."}
        /\ \A i \in dots : Len(body) - i <= 2

\* such a text with its value unchanged and two fractional digits
DirectText(s) ==
    LET body == Unsigned(s)
        dot  == CHOOSE i \in 1..Len(body) : body[i] = "."
        frac == SubSeq(body, dot + 1, Len(body))
    IN  SignText(s) \o StripLeadingZeros(SubSeq(body, 1, dot - 1)) \o <<".">>
                    \o frac \o Repeat("0", 2 - Len(frac))

\* the decimal text of a natural number
RECURSIVE DecimalText(_)
DecimalText(n) ==
    IF n < 10 THEN <<DigitChar(n)>>
    ELSE Append(DecimalText(n \div 10), DigitChar(n % 10))

\* t occurs in s
Contains(s, t) ==
    \E i \in 0..(Len(s) - Len(t)) : SubSeq(s, i + 1, i + Len(t)) = t

\* what the caller of the generator sees of one pass of the loop body: both
\* continue statements are the same skip
Outcome(res) ==
    IF res.kind \in {"blank", "ignored"} THEN [kind |-> "skip"] ELSE res

NoEdgeWhitespace(l) ==
    l = <<>> \/ (l[1] \notin Whitespace /\ l[Len(l)] \notin Whitespace)

ParseFailed == exc.type = "decimal.InvalidOperation"

Succeeded == msgbox = "information"

TableNames == {"file_header.csv", "accounts.csv", "transactions.csv"}

\* a record as a row of a table: its values in column order, "" where the
\* record is shorter than the schema
RowOf(r, columns) ==
    [j \in 1..Len(columns) |-> IF j <= Len(r) THEN r[j][2] ELSE <<>>]

TableOf(recs, columns) ==
    [header |-> columns,
     rows   |-> [i \in 1..Len(recs) |-> RowOf(recs[i], columns)]]

(***************************************************************************)
(* The properties.                                                         *)
(***************************************************************************)

\* C1: every record parse_bai2 emits, of any of the four kinds, has exactly
\* the keys of its kind's schema, in schema order; a field the line lacks is
\* present with the empty string, a field beyond the schema is dropped, and
\* every other field is the line's own (the amount of a code-16 record
\* aside, which is normalised).  Stated for the record decoded from line.
C1_FullSchema ==
    (linePc # "start" /\ lineRes.kind = "yield") =>
        LET fields == FieldsOf(Trimmed(line))
            schema == SchemaOf(CodeOf(line))
            r      == lineRes.rec
        IN  /\ Keys(r) = schema
            /\ \A j \in 1..Len(schema) :
                  (schema[j] # "amount") =>
                      r[j][2] = IF j <= Len(fields) THEN fields[j] ELSE <<>>

\* C2: an optionally signed integer amount n is emitted as n/100, exactly,
\* and an amount written with a decimal point is emitted with its own value,
\* both with the sign kept and two fractional digits ("12345" and "123.45"
\* give "123.45", "-500" gives "-5.00").
C2_AmountNormalization ==
    (amtPc = "done") =>
        /\ IsIntegerText(amt) => (amtRes.ok /\ amtRes.val = CentsText(amt))
        /\ IsDecimalText2(amt) => (amtRes.ok /\ amtRes.val = DirectText(amt))

\* C3: in every code-16 record parse_bai2 has emitted, whatever the amount
\* text was, the amount is fixed point with exactly two digits after the
\* decimal point.
C3_AmountFixedPoint ==
    \A i \in 1..Len(emitted) :
        (RecordCode(emitted[i]) = Code16) =>
            IsFixed2(DictAt(emitted[i], "amount"))

\* C4: once parse_bai2 has failed on an amount, the failing line is the
\* first such line of the file, the records of all earlier lines have been
\* emitted, unchanged and in order, and have reached the caller's lists,
\* nothing was emitted for the failing line, and the generator runs no more.
C4_FailFastPartialOutput ==
    ParseFailed =>
        /\ pc \in {"except", "done"}
        /\ lineno \in 1..Len(file)
        /\ DecodeLine(file[lineno]).kind = "raise"
        /\ \A i \in 1..(lineno - 1) : DecodeLine(file[i]).kind # "raise"
        /\ emitted = RecordsOf(SubSeq(file, 1, lineno - 1))
        /\ headers = OfCode(emitted, Code01)
        /\ accounts = OfCode(emitted, Code03)
        /\ txns = OfCode(emitted, Code16)

C4_Witness ==
    /\ ParseFailed
    /\ pc = "except"
    /\ emitted # <<>>
    /\ lineno < Len(file)

\* C5: the failure parse_bai2 propagates for a code-16 line whose amount is
\* not a number is the amount failure (MalformedAmount; the code has one
\* failure of the amount, decimal.InvalidOperation) and carries the line
\* number of the offending line and its raw text, the raw amount included.
C5_MalformedAmountCarriesContext ==
    (picked /\ pc = "except" /\ Len(FieldsOf(Trimmed(file[lineno]))) >= 3) =>
        /\ ParseFailed
        /\ Contains(exc.msg, DecimalText(lineno))
        /\ Contains(exc.msg, Trimmed(file[lineno]))
        /\ Contains(exc.msg, FieldsOf(Trimmed(file[lineno]))[3])

\* C6: a code-16 line with fewer than seven fields, the amount column
\* absent or holding a number, yields a record with all seven schema fields,
\* the absent trailing ones empty, and no error.
C6_TruncatedTxnTolerated ==
    LET fields == FieldsOf(Trimmed(line))
    IN  ( /\ linePc # "start"
          /\ Strip(line) # <<>>
          /\ fields[1] = Code16
          /\ Len(fields) < Len(TXN_FIELDS)
          /\ (Len(fields) >= 3 => NormalizeAmount(fields[3]).ok) ) =>
            /\ lineRes.kind = "yield"
            /\ Keys(lineRes.rec) = TXN_FIELDS
            /\ \A j \in (Len(fields) + 1)..Len(TXN_FIELDS) :
                  (TXN_FIELDS[j] # "amount") => lineRes.rec[j][2] = <<>>

\* C7: as long as no amount has failed, the records emitted are exactly
\* one per line read whose code is 01, 02, 03 or 16, in the order of those
\* lines; blank lines and lines of another code give nothing and stop
\* nothing: when the loop is over every line has been read.
C7_OneRecordPerHandledLine ==
    (picked /\ ~ParseFailed) =>
        LET handled == SelectSeq(SubSeq(file, 1, lineno), IsHandled)
        IN  /\ Len(emitted) = Len(handled)
            /\ \A k \in 1..Len(emitted) :
                  /\ RecordCode(emitted[k]) = CodeOf(handled[k])
                  /\ DecodeLine(handled[k]).kind = "yield"
                  /\ emitted[k] = DecodeLine(handled[k]).rec
            /\ (pc \notin {"idle", "iter", "body"}) => lineno = Len(file)

C7_Witness ==
    /\ Succeeded
    /\ Len(file) = 3
    /\ Strip(file[1]) = <<>>
    /\ CodeOf(file[2]) = <<"9", "9">>
    /\ Len(emitted) = 1

\* C8: after a successful conversion the file-header table holds one row per
\* 01 record, the accounts table one per 03 record and the transactions
\* table one per 16 record, each in the order emitted; 02 records are in no
\* table; every row has the columns of its schema in schema order, with the
\* empty string for a field the record lacks.
C8_OutputPartition ==
    Succeeded =>
        /\ DOMAIN csv = TableNames
        /\ csv["file_header.csv"] = TableOf(OfCode(emitted, Code01), HDR_FIELDS)
        /\ csv["accounts.csv"] = TableOf(OfCode(emitted, Code03), ACC_FIELDS)
        /\ csv["transactions.csv"] = TableOf(OfCode(emitted, Code16), TXN_FIELDS)
        /\ \A n \in TableNames : \A i \in 1..Len(csv[n].rows) :
              /\ Len(csv[n].rows[i]) = Len(csv[n].header)
              /\ csv[n].rows[i][1] # Code02

C8_Witness ==
    /\ Succeeded
    /\ OfCode(emitted, Code02) # <<>>
    /\ \E i \in 1..Len(headers) : Len(headers[i]) < Len(HDR_FIELDS)
    /\ Len(csv["file_header.csv"].rows) = 1
    /\ Len(csv["transactions.csv"].rows) = 1

\* C9: exactly one trailing "/" is removed: a line without whitespace at its
\* ends and not ending in "/" decodes to the same result with "/" appended
\* (the same record, the same skip, the same failure), and a line ending in
\* "//" keeps one "/" in its last field.
C9_OneTerminatorRemoved ==
    /\ (linePc = "both" /\ NoEdgeWhitespace(line) /\ ~EndsWithSlash(line)) =>
          Outcome(termRes) = Outcome(lineRes)
    /\ LET t == Strip(line)
       IN  ( /\ linePc # "start"
             /\ Len(t) >= 2 /\ t[Len(t)] = "/" /\ t[Len(t) - 1] = "/"
             /\ lineRes.kind = "yield"
             /\ Len(lineRes.rec) = Len(FieldsOf(t)) ) =>
               LET last == lineRes.rec[Len(lineRes.rec)][2]
               IN  last # <<>> /\ last[Len(last)] = "/"

C9_Witness ==
    /\ linePc = "both"
    /\ NoEdgeWhitespace(line)
    /\ ~EndsWithSlash(line)
    /\ lineRes.kind = "yield"
    /\ RecordCode(lineRes.rec) = Code16
    /\ Len(FieldsOf(line)) > 3

\* C10: the three tables are written only after parse_bai2 has run to the
\* end of the file without failure; when parsing fails on any line none of
\* them is written, whatever was emitted and collected before, and the
\* error is shown instead of the success message.
C10_AllOrNothing ==
    /\ (DOMAIN csv # {}) =>
          /\ exc = NoExc
          /\ lineno = Len(file)
          /\ pc \in {"write_accounts", "write_txns", "report", "done"}
    /\ (exc # NoExc) => (DOMAIN csv = {} /\ ~Succeeded)
    /\ (exc # NoExc /\ pc = "done") => msgbox = "critical"
    /\ Succeeded => DOMAIN csv = TableNames

C10_Witness ==
    /\ ParseFailed
    /\ pc = "done"
    /\ lineno = Len(file)
    /\ headers # <<>>
    /\ txns # <<>>
    /\ DOMAIN csv = {}
    /\ msgbox = "critical"
====
